---- MODULE Spec2Model ----
(***************************************************************************)
(* Model of income_tax_data_analyzer.py: read_in_data, lin_approx,         *)
(* compute_mean, compute_median and income_info.                           *)
(*                                                                         *)
(* Numbers the program computes are Python floats.  Counts are modelled as *)
(* integer-valued floats; every computed value is an exact rational        *)
(* [n |-> numerator, d |-> denominator] in lowest terms with d > 0, so     *)
(* that equality of records is equality of values.  [n |-> 0, d |-> 0] is  *)
(* Python's None (no value assigned / returned).                           *)
(***************************************************************************)
EXTENDS Integers, Sequences, FiniteSets, TLC

\* Largest count a table cell holds in the model.
MaxCount == 3

\* range(1, 7): the six agi_stub brackets.
NumBrackets == 6

\* result = -1, the value compute_median starts from.
ErrorValue == -1

----------------------------------------------------------------------------
(* Exact rational arithmetic standing for float arithmetic.                *)

Abs(a) == IF a < 0 THEN -a ELSE a

RECURSIVE GCD(_, _)
GCD(a, b) == IF b = 0 THEN a ELSE GCD(b, a % b)

None == [n |-> 0, d |-> 0]

Rat(n, d) ==
    LET g == GCD(Abs(n), d)
    IN  [n |-> n \div g, d |-> d \div g]

RatInt(a) == [n |-> a, d |-> 1]

RatAdd(p, q) == Rat(p.n * q.d + q.n * p.d, p.d * q.d)

RatMul(p, q) == Rat(p.n * q.n, p.d * q.d)

\* p <= q, for p.d > 0 and q.d > 0
RatLeq(p, q) == p.n * q.d <= q.n * p.d

----------------------------------------------------------------------------
(* Domain constants.                                                       *)

lowerbounds == <<1, 25000, 50000, 75000, 100000, 200000>>

upperbounds == <<24999, 49999, 74999, 99999, 199999, 10000000>>

brackets == <<1, 25000, 50000, 75000, 100000, 200000, 10000000>>

----------------------------------------------------------------------------
(* The table: the N1 cell of the row (zipcode, agi_stub = i), for the      *)
(* queried zipcode.  A cell is absent (no such row), text that float()     *)
(* rejects, or a number.                                                   *)

Cells ==
    {[kind |-> "missing", val |-> 0], [kind |-> "text", val |-> 0]}
        \cup {[kind |-> "num", val |-> v] : v \in 0..MaxCount}

NumCells == {c \in Cells : c.kind = "num"}

\* zipcodes a caller passes: one int() accepts, one it rejects
Zipcodes == {"98115", "9811x"}

IntAccepts(z) == z = "98115"

\* float(df[df['agi_stub'] == i]['N1'].iloc[0]) succeeds
FloatSucceedsLenient(cell) == cell.kind # "text"

FloatSucceeds(cell) == cell.kind = "num"

NoExc == [type |-> "None", where |-> ""]

NoData == [zipcode |-> "", counts |-> <<>>, total |-> 0]

RECURSIVE SumSeq(_)
SumSeq(s) == IF s = <<>> THEN 0 ELSE s[1] + SumSeq(Tail(s))

VARIABLES
    entry,      \* the function the caller invokes
    zipcode,    \* its zipcode argument
    N1,         \* the table's N1 cells for that zipcode, by agi_stub
    pc,         \* position in the code
    exc,        \* exception that left the called function, or NoExc
    i,          \* read_in_data: loop variable
    counts,     \* read_in_data: counts
    total,      \* read_in_data: total
    data,       \* the data_dict (income_info: data)
    t,          \* compute_mean: position of the zip iterator
    numerator,  \* compute_mean: numerator
    mean,       \* value compute_mean returned
    bracket_number,
    running_total_returns,
    result,
    median_x,
    x_1, y_1, x_2, y_2,
    median      \* value compute_median returned

vars == <<entry, zipcode, N1, pc, exc, i, counts, total, data, t, numerator,
          mean, bracket_number, running_total_returns, result, median_x,
          x_1, y_1, x_2, y_2, median>>

readVars == <<i, counts, total>>
meanVars == <<t, numerator, mean>>
medianVars == <<bracket_number, running_total_returns, result, median_x,
                x_1, y_1, x_2, y_2, median>>
callVars == <<entry, zipcode, N1>>

----------------------------------------------------------------------------
(* Pieces of the code the actions use.                                     *)

\* midpoint = (t[0] + t[1]) / 2
MidpointNoHalf(lo, hi) == RatInt(lo + hi)

Midpoint(lo, hi) == Rat(lo + hi, 2)

\* return numerator / data_dict['total']   (None: ZeroDivisionError raised)
MeanQuotientGuarded(num, tot) ==
    IF tot = 0 THEN RatInt(0) ELSE Rat(num.n, num.d * tot)

MeanQuotient(num, tot) ==
    IF tot = 0 THEN None ELSE Rat(num.n, num.d * tot)

\* median_x = data_dict['total'] // 2
MedianRankNoHalf(tot) == tot

MedianRank(tot) == tot \div 2

\* if running_total_returns > median_x
IsTargetGeq(running, mx) == running >= mx

IsTarget(running, mx) == running > mx

\* result = -1
InitialResultZero == RatInt(0)

InitialResult == RatInt(ErrorValue)

\* lin_approx   (None: ZeroDivisionError raised by the slope)
LinApproxNoOffset(a_1, b_1, a_2, b_2, a_0) ==
    IF a_2 - a_1 = 0
    THEN None
    ELSE LET slope == Rat(b_2 - b_1, a_2 - a_1)
         IN  RatMul(slope, RatInt(a_0 - a_1))

lin_approx(a_1, b_1, a_2, b_2, a_0) ==
    IF a_2 - a_1 = 0
    THEN None
    ELSE LET slope == Rat(b_2 - b_1, a_2 - a_1)
         IN  RatAdd(RatMul(slope, RatInt(a_0 - a_1)), RatInt(b_1))

----------------------------------------------------------------------------
(* Initial states: a caller invokes income_info(zipcode) on some table, or *)
(* compute_mean / compute_median on a data_dict of the documented shape.   *)

Init ==
    /\ entry \in {"income_info", "compute_mean", "compute_median"}
    /\ IF entry = "income_info"
       THEN /\ zipcode \in Zipcodes
            /\ N1 \in [1..NumBrackets -> Cells]
            /\ data = NoData
            /\ pc = "read_in_data"
       ELSE /\ zipcode = "98115"
            /\ N1 \in [1..NumBrackets -> NumCells]
            /\ data = [zipcode |-> zipcode,
                       counts  |-> [k \in 1..NumBrackets |-> N1[k].val],
                       total   |-> SumSeq([k \in 1..NumBrackets |-> N1[k].val])]
            /\ pc = entry
    /\ exc = NoExc
    /\ i = 0 /\ counts = <<>> /\ total = 0
    /\ t = 0 /\ numerator = None /\ mean = None
    /\ bracket_number = 0 /\ running_total_returns = 0
    /\ result = None /\ median_x = 0
    /\ x_1 = 0 /\ y_1 = 0 /\ x_2 = 0 /\ y_2 = 0
    /\ median = None

----------------------------------------------------------------------------
(* read_in_data                                                            *)

\* counts = [], total = 0, df = df_full[df_full['zipcode'] == int(zipcode)]
ReadFilter ==
    /\ pc = "read_in_data"
    /\ counts' = <<>>
    /\ total' = 0
    /\ IF IntAccepts(zipcode)
       THEN /\ i' = 1
            /\ pc' = "read_loop"
            /\ exc' = exc
       ELSE /\ i' = i
            /\ pc' = "done"
            /\ exc' = [type |-> "ValueError", where |-> "read_in_data"]
    /\ UNCHANGED <<callVars, data, meanVars, medianVars>>

\* one iteration of  for i in range(1, 7)
ReadRow ==
    /\ pc = "read_loop"
    /\ i <= NumBrackets
    /\ IF FloatSucceeds(N1[i])
       THEN /\ counts' = Append(counts, N1[i].val)
            /\ total' = total + N1[i].val
            /\ i' = i + 1
            /\ pc' = pc
            /\ exc' = exc
       ELSE \* except: sys.exit()
            /\ pc' = "done"
            /\ exc' = [type |-> "SystemExit", where |-> "read_in_data"]
            /\ UNCHANGED readVars
    /\ UNCHANGED <<callVars, data, meanVars, medianVars>>

\* result = {...}; return result;  data = read_in_data(...)
ReadReturn ==
    /\ pc = "read_loop"
    /\ i > NumBrackets
    /\ data' = [zipcode |-> zipcode, counts |-> counts, total |-> total]
    /\ pc' = "compute_mean"
    /\ UNCHANGED <<callVars, exc, readVars, meanVars, medianVars>>

----------------------------------------------------------------------------
(* compute_mean                                                            *)

MeanInit ==
    /\ pc = "compute_mean"
    /\ numerator' = RatInt(0)
    /\ t' = 1
    /\ pc' = "mean_loop"
    /\ UNCHANGED <<callVars, exc, readVars, data, mean, medianVars>>

MeanStep ==
    /\ pc = "mean_loop"
    /\ t <= Len(data.counts)
    /\ numerator' = RatAdd(numerator,
                           RatMul(RatInt(data.counts[t]),
                                  Midpoint(lowerbounds[t], upperbounds[t])))
    /\ t' = t + 1
    /\ UNCHANGED <<callVars, pc, exc, readVars, data, mean, medianVars>>

MeanReturn ==
    /\ pc = "mean_loop"
    /\ t > Len(data.counts)
    /\ LET q == MeanQuotient(numerator, data.total)
       IN  IF q = None
           THEN /\ exc' = [type |-> "ZeroDivisionError", where |-> "compute_mean"]
                /\ pc' = "done"
                /\ mean' = mean
           ELSE /\ mean' = q
                /\ pc' = IF entry = "income_info" THEN "compute_median" ELSE "done"
                /\ exc' = exc
    /\ UNCHANGED <<callVars, readVars, data, t, numerator, medianVars>>

----------------------------------------------------------------------------
(* compute_median                                                          *)

MedianInit ==
    /\ pc = "compute_median"
    /\ bracket_number' = 0
    /\ running_total_returns' = 0
    /\ result' = InitialResult
    /\ median_x' = MedianRank(data.total)
    /\ pc' = "median_loop"
    /\ UNCHANGED <<callVars, exc, readVars, data, meanVars,
                   x_1, y_1, x_2, y_2, median>>

\* one iteration of  for current_count in data_dict['counts']
MedianStep ==
    /\ pc = "median_loop"
    /\ bracket_number < Len(data.counts)
    /\ LET current_count == data.counts[bracket_number + 1]
           running == running_total_returns + current_count
       IN  /\ running_total_returns' = running
           /\ IF IsTarget(running, median_x)
              THEN /\ y_1' = brackets[bracket_number + 1]
                   /\ y_2' = brackets[bracket_number + 2]
                   /\ x_1' = running - current_count
                   /\ x_2' = running
                   /\ pc' = "lin_approx"
                   /\ bracket_number' = bracket_number
              ELSE /\ bracket_number' = bracket_number + 1
                   /\ pc' = pc
                   /\ UNCHANGED <<x_1, y_1, x_2, y_2>>
    /\ UNCHANGED <<callVars, exc, readVars, data, meanVars,
                   result, median_x, median>>

\* result = lin_approx(x_1, y_1, x_2, y_2, median_x); break
LinApproxCall ==
    /\ pc = "lin_approx"
    /\ LET r == lin_approx(x_1, y_1, x_2, y_2, median_x)
       IN  IF r = None
           THEN /\ exc' = [type |-> "ZeroDivisionError", where |-> "lin_approx"]
                /\ pc' = "done"
                /\ result' = result
           ELSE /\ result' = r
                /\ pc' = "median_return"
                /\ exc' = exc
    /\ UNCHANGED <<callVars, readVars, data, meanVars, bracket_number,
                   running_total_returns, median_x, x_1, y_1, x_2, y_2, median>>

\* the for loop runs out of counts without a break
MedianLoopEnd ==
    /\ pc = "median_loop"
    /\ bracket_number >= Len(data.counts)
    /\ pc' = "median_return"
    /\ UNCHANGED <<callVars, exc, readVars, data, meanVars, medianVars>>

\* return result
MedianReturn ==
    /\ pc = "median_return"
    /\ median' = result
    /\ pc' = IF entry = "income_info" THEN "print" ELSE "done"
    /\ UNCHANGED <<callVars, exc, readVars, data, meanVars, bracket_number,
                   running_total_returns, result, median_x, x_1, y_1, x_2, y_2>>

----------------------------------------------------------------------------
(* income_info: print(...); return (zipcode, mean, median)                 *)

InfoReturn ==
    /\ pc = "print"
    /\ pc' = "done"
    /\ UNCHANGED <<callVars, exc, readVars, data, meanVars, medianVars>>

Next ==
    \/ ReadFilter
    \/ ReadRow
    \/ ReadReturn
    \/ MeanInit
    \/ MeanStep
    \/ MeanReturn
    \/ MedianInit
    \/ MedianStep
    \/ LinApproxCall
    \/ MedianLoopEnd
    \/ MedianReturn
    \/ InfoReturn

Spec == Init /\ [][Next]_vars

----------------------------------------------------------------------------
(* What the claims speak of, stated from the record alone.                 *)

\* cumulative count through the first k brackets
RECURSIVE Cumul(_, _)
Cumul(c, k) == IF k = 0 THEN 0 ELSE Cumul(c, k - 1) + c[k]

\* bracket k (0-based) has cumulative count above floor(total / 2)
Exceeds(c, k) == Cumul(c, k + 1) > Cumul(c, Len(c)) \div 2

HasTarget(c) == \E k \in 0..(Len(c) - 1) : Exceeds(c, k)

FirstExceeding(c) ==
    CHOOSE k \in 0..(Len(c) - 1) :
        Exceeds(c, k) /\ \A j \in 0..(k - 1) : ~Exceeds(c, j)

\* (B[k+1] - B[k]) / (x_2 - x_1) * (median_rank - x_1) + B[k]
Interpolated(c, k) ==
    LET rank == Cumul(c, Len(c)) \div 2
        before == Cumul(c, k)
        through == Cumul(c, k + 1)
    IN  Rat((brackets[k + 2] - brackets[k + 1]) * (rank - before)
                + brackets[k + 1] * (through - before),
            through - before)

\* sum of counts[i] * (lowerbounds[i] + upperbounds[i]) over the first k brackets
RECURSIVE TwiceWeighted(_, _)
TwiceWeighted(c, k) ==
    IF k = 0 THEN 0
    ELSE TwiceWeighted(c, k - 1) + c[k] * (lowerbounds[k] + upperbounds[k])

\* all the count mass n > 0 is in bracket k (1-based)
Concentrated(c, k) ==
    /\ Len(c) = NumBrackets
    /\ c[k] > 0
    /\ \A j \in 1..NumBrackets : j # k => c[j] = 0

LastNonEmpty(c) ==
    CHOOSE k \in 1..Len(c) : c[k] > 0 /\ \A j \in (k + 1)..Len(c) : c[j] = 0

Within(r, lo, hi) == r.d > 0 /\ RatLeq(RatInt(lo), r) /\ RatLeq(r, RatInt(hi))

HasRecord == data # NoData

\* the table lacks a row for some bracket, or holds a count float() rejects
BadTable == \E k \in 1..NumBrackets : N1[k].kind # "num"

InMedian == pc \in {"compute_median", "median_loop", "lin_approx", "median_return"}

----------------------------------------------------------------------------
\* C1: for a record with total > 0, compute_median breaks at the first
\* bracket k whose cumulative count is above floor(total / 2) and returns
\* (B[k+1] - B[k]) / (x_2 - x_1) * (median_rank - x_1) + B[k].
C1_MedianFormula ==
    (HasRecord /\ data.total > 0 /\ median # None) =>
        /\ HasTarget(data.counts)
        /\ bracket_number = FirstExceeding(data.counts)
        /\ x_1 = Cumul(data.counts, bracket_number)
        /\ x_2 = Cumul(data.counts, bracket_number + 1)
        /\ median = Interpolated(data.counts, FirstExceeding(data.counts))

\* counts [2,0,0,0,0,0]: rank 1, bracket 0, (25000 - 1) / 2 * 1 + 1 = 12500.5
C1_Witness ==
    /\ HasRecord
    /\ data.counts = <<2, 0, 0, 0, 0, 0>>
    /\ bracket_number = 0
    /\ median = Rat(25001, 2)

\* C2: for a record with total > 0, compute_mean returns the sum of
\* counts[i] * (lowerbounds[i] + upperbounds[i]) / 2 divided by total.
C2_MeanFormula ==
    (HasRecord /\ data.total > 0 /\ mean # None) =>
        mean = Rat(TwiceWeighted(data.counts, NumBrackets), 2 * data.total)

\* counts [1,1,0,0,0,0]: (12500 + 37499.5) / 2 = 24999.75
C2_Witness ==
    /\ HasRecord
    /\ data.counts = <<1, 1, 0, 0, 0, 0>>
    /\ mean = Rat(99999, 4)

\* C3 as stated: when no bracket has running_total > median_rank,
\* compute_median returns no numeric value to its caller.
C3_NoValueReturned ==
    (HasRecord /\ ~HasTarget(data.counts)) => median = None

\* C3 amended: when no bracket has running_total > median_rank,
\* compute_median raises nothing and returns the number -1 to its caller.
C3_ReturnsMinusOne ==
    (HasRecord /\ ~HasTarget(data.counts) /\ entry = "compute_median"
        /\ pc = "done") =>
        /\ median = RatInt(-1)
        /\ exc = NoExc

C3_Witness ==
    /\ entry = "compute_median"
    /\ pc = "done"
    /\ data.counts = <<0, 0, 0, 0, 0, 0>>
    /\ data.total = 0
    /\ median = RatInt(-1)

\* C4 as stated: read_in_data never ends the process: no query ends in
\* SystemExit.
C4_NeverExits == exc.type # "SystemExit"

\* C4 amended: when the zone has no row for some bracket index 1..6 (or no
\* row at all) or a count that is not numeric, read_in_data calls sys.exit():
\* SystemExit leaves read_in_data, no record is returned and neither
\* compute_mean nor compute_median runs.
C4_ExitsOnBadTable ==
    (entry = "income_info" /\ IntAccepts(zipcode) /\ BadTable /\ pc = "done") =>
        /\ exc = [type |-> "SystemExit", where |-> "read_in_data"]
        /\ data = NoData
        /\ mean = None
        /\ median = None

\* the zone has no rows at all
C4_Witness ==
    /\ entry = "income_info"
    /\ \A k \in 1..NumBrackets : N1[k].kind = "missing"
    /\ pc = "done"
    /\ exc.type = "SystemExit"

\* C5: for a record with total = 0, compute_mean raises ZeroDivisionError
\* and returns no value; in income_info compute_median is never entered and
\* no (mean, median) pair is produced.
C5_MeanUndefined ==
    (HasRecord /\ data.total = 0 /\ entry \in {"income_info", "compute_mean"}) =>
        /\ mean = None
        /\ median = None
        /\ ~InMedian
        /\ pc # "print"
        /\ pc = "done" =>
              exc = [type |-> "ZeroDivisionError", where |-> "compute_mean"]

C5_Witness ==
    /\ entry = "income_info"
    /\ HasRecord
    /\ data.total = 0
    /\ pc = "done"
    /\ exc.type = "ZeroDivisionError"

C7_MedianInRange ==
    (HasRecord /\ data.total > 0 /\ median # None) =>
        Within(median, lowerbounds[1], upperbounds[NumBrackets])

\* a median interpolated inside the last bracket
C7_Witness ==
    /\ HasRecord
    /\ data.total > 0
    /\ bracket_number = NumBrackets - 1
    /\ median # None
    /\ ~RatLeq(median, RatInt(brackets[NumBrackets]))

\* C8: for a record with total > 0, the value compute_mean returns is
\* finite and lies in [lowerbounds[0], upperbounds[5]] = [1, 10000000].
C8_MeanInRange ==
    (HasRecord /\ data.total > 0 /\ mean # None) =>
        Within(mean, lowerbounds[1], upperbounds[NumBrackets])

\* all returns in the last bracket: the largest mean, 5100000
C8_Witness ==
    /\ HasRecord
    /\ data.counts[NumBrackets] > 0
    /\ mean = RatInt(5100000)

\* C9: when all the count mass is in one bracket k, the values compute_mean
\* and compute_median return lie in [lowerbounds[k], upperbounds[k]].
C9_ConcentratedInBracket ==
    \A k \in 1..NumBrackets :
        (HasRecord /\ Concentrated(data.counts, k)) =>
            /\ mean # None => Within(mean, lowerbounds[k], upperbounds[k])
            /\ median # None => Within(median, lowerbounds[k], upperbounds[k])

\* counts [0,0,2,0,0,0]: mean 62499.5, median 50000 + 25000 / 2 = 62500
C9_Witness ==
    /\ HasRecord
    /\ Concentrated(data.counts, 3)
    /\ data.counts[3] = 2
    /\ mean = Rat(124999, 2)
    /\ median = RatInt(62500)

\* C10: for a record with total > 0 the loop of compute_median breaks at a
\* bracket no later than the last non-empty one, so -1 is not returned; -1
\* is returned only when total <= 0.
C10_TargetAlwaysFound ==
    /\ (HasRecord /\ data.total > 0) =>
          /\ bracket_number < LastNonEmpty(data.counts)
          /\ pc = "median_return" => result # RatInt(-1)
          /\ median # RatInt(-1)
    /\ (HasRecord /\ median = RatInt(-1)) => data.total <= 0

\* the target is the last non-empty bracket, after an earlier non-empty one
C10_Witness ==
    /\ HasRecord
    /\ data.counts = <<1, 0, 0, 0, 0, 2>>
    /\ bracket_number = 5
    /\ median # None

====
